---- MODULE Spec2Model ----
(***************************************************************************)
(* Model of src/app.py: the dashboard "Ocorrencias x Eventos".             *)
(*                                                                         *)
(* The script runs top to bottom once (load, hour extraction, region      *)
(* classification, event normalisation, option lists) and then serves the *)
(* single Dash callback atualizar_dashboard_completo.                      *)
(*                                                                         *)
(*   SpecHora    extrair_hora_robusta applied to one input column          *)
(*   SpecRegiao  the loop over zonas_sao_paulo that fills 'regiao'         *)
(*   Spec        the callback over the two base tables                     *)
(*                                                                         *)
(* Conventions.  A text is a sequence of one-character strings.  A value   *)
(* that may be missing (pd.NA / NaN / NaT) is a sequence of length <= 1:   *)
(* NA is <<>> and a present value x is <<x>>.  In the base tables a text   *)
(* field that is missing holds the string NAstr.                           *)
(***************************************************************************)
EXTENDS Integers, Sequences, FiniteSets, TLC

VARIABLES
    pc,          \* position of the script / which step has run
    serie,       \* the column handed to extrair_hora_robusta
    horas,       \* the column extrair_hora_robusta returned
    col_bairro,  \* df_criminal[COLUNA_BAIRRO_CRIM] before classification
    col_regiao,  \* df_criminal['regiao']
    zona_i,      \* position of the loop over zonas_sao_paulo.items()
    df_criminal, \* base occurrence table (sequence of rows)
    df_eventos,  \* base event table (sequence of rows)
    sel,         \* the seven dropdown values of the page
    out,         \* what the last run of the callback computed
    pedidos,     \* per viewer: the invocation in flight and its last response
    quadros,     \* per call frame: the locals df_*_filtrado of an invocation
    arquivos,    \* the three input files as found on disk at startup
    COLUNA_DATA_CRIM, \* the name of the occurrence date column in use
    opcoes       \* the dropdown option lists built at startup

vars ==
    <<pc, serie, horas, col_bairro, col_regiao, zona_i, df_criminal, df_eventos,
      sel, out, pedidos, quadros, arquivos, COLUNA_DATA_CRIM, opcoes>>

\* The variables of the concurrent viewers and of the startup script
varsViewers == <<pedidos, quadros>>
varsCarga == <<arquivos, COLUNA_DATA_CRIM, opcoes>>

\* Their values in the specifications that do not use them
SemViewers == pedidos = <<>> /\ quadros = <<>>
SemCarga == arquivos = <<>> /\ COLUNA_DATA_CRIM = <<>> /\ opcoes = <<>>

----------------------------------------------------------------------------
(* Missing values *)

NA == <<>>
Some(x) == <<x>>
NAstr == "<NA>"

----------------------------------------------------------------------------
(* Bounds and input alphabets of the hour extractor *)

MaxLen == 3
MaxLinhasHora == 1

Digitos == {"0", "1", "2", "3", "4", "5", "6", "7", "8", "9"}
Alfabeto == {"2", "9", ":", " "}

TextosAte(n) == UNION {[1..k -> Alfabeto] : k \in 0..n}

\* The texts the specification's examples name, and the leading zeros, clock
\* times and non-numeric texts that Alfabeto and MaxLen alone do not reach.
Exemplos ==
    { <<"2", "1", "3", "0">>,
      <<"0", "8", "3", "0", "0", "0">>,
      <<"7">>,
      <<"0">>,
      <<"0", "0">>,
      <<"0", "2">>,
      <<"2", "4">>,
      <<"2", "3">>,
      <<"0", "2", "9">>,
      <<"a", "b">>,
      <<"a", "9">>,
      <<"9", ":", "3", "0">>,
      <<"0", "9", ":", "3", "0", ":", "0", "0">>,
      <<"2", "5", ":", "0", "0">>,
      <<"2", "3", "5", "9", "5", "9", "9">> }

Textos == TextosAte(MaxLen) \cup Exemplos

HorasAmostra == {0, 9, 23}

----------------------------------------------------------------------------
(* Text primitives used by extrair_hora_robusta *)

ValorDigito(c) ==
    CASE c = "0" -> 0 [] c = "1" -> 1 [] c = "2" -> 2 [] c = "3" -> 3
      [] c = "4" -> 4 [] c = "5" -> 5 [] c = "6" -> 6 [] c = "7" -> 7
      [] c = "8" -> 8 [] c = "9" -> 9

RECURSIVE LStrip(_)
LStrip(t) == IF Len(t) > 0 /\ t[1] = " " THEN LStrip(Tail(t)) ELSE t

RECURSIVE RStrip(_)
RStrip(t) ==
    IF Len(t) > 0 /\ t[Len(t)] = " " THEN RStrip(SubSeq(t, 1, Len(t) - 1)) ELSE t

\* .str.strip()
str_strip(t) == RStrip(LStrip(t))

\* .str.contains(":", na=False) on one present text
TemDoisPontos(t) == \E i \in 1..Len(t) : t[i] = ":"

EhDigito(c) == c \in Digitos

\* .str.replace(r"\D", "", regex=True)
RECURSIVE RemoverNaoDigitos(_)
RemoverNaoDigitos(t) ==
    IF t = <<>> THEN <<>>
    ELSE IF EhDigito(Head(t)) THEN <<Head(t)>> \o RemoverNaoDigitos(Tail(t))
    ELSE RemoverNaoDigitos(Tail(t))

\* .str.slice(0, 2)
str_slice_0_2(d) == SubSeq(d, 1, IF Len(d) < 2 THEN Len(d) ELSE 2)

RECURSIVE ValorDecimal(_)
ValorDecimal(d) ==
    IF d = <<>> THEN 0
    ELSE 10 * ValorDecimal(SubSeq(d, 1, Len(d) - 1)) + ValorDigito(d[Len(d)])

\* pd.to_numeric(..., errors="coerce") of a string of digits: "" gives NaN
to_numeric(d) == IF d = <<>> THEN NA ELSE Some(ValorDecimal(d))

----------------------------------------------------------------------------
(* extrair_hora_robusta, src/app.py 78-106 *)

\* One colon-separated field list of a text: "9:30" gives <<"9", "30">>
RECURSIVE Campos(_)
Campos(t) ==
    IF ~TemDoisPontos(t) THEN <<t>>
    ELSE LET i == CHOOSE j \in 1..Len(t) :
                      t[j] = ":" /\ \A k \in 1..(j - 1) : t[k] # ":"
         IN <<SubSeq(t, 1, i - 1)>> \o Campos(SubSeq(t, i + 1, Len(t)))

SoDigitos(f) == \A i \in 1..Len(f) : EhDigito(f[i])

\* The text has the shape H:MM, HH:MM, H:MM:SS or HH:MM:SS
FormaRelogio(t) ==
    LET c == Campos(t)
    IN /\ Len(c) \in {2, 3}
       /\ Len(c[1]) \in {1, 2}
       /\ SoDigitos(c[1])
       /\ \A i \in 2..Len(c) : Len(c[i]) = 2 /\ SoDigitos(c[i])

RelogioValido(t) ==
    LET c == Campos(t)
    IN /\ FormaRelogio(t)
       /\ ValorDecimal(c[1]) <= 23
       /\ \A i \in 2..Len(c) : ValorDecimal(c[i]) <= 59

\* The hours a lenient reading of a text can take from it: the value of any
\* run of one or two adjacent digits, when it is an hour.
HorasLidas(t) ==
    {h \in 0..23 :
        \E i \in 1..Len(t), j \in 1..Len(t) :
            /\ i <= j /\ j <= i + 1
            /\ SoDigitos(SubSeq(t, i, j))
            /\ h = ValorDecimal(SubSeq(t, i, j))}

\* pd.to_datetime("2000-01-01 " + t, errors="coerce").dt.hour for one text t
\* that holds a colon: the set of results the library can give.  A valid clock
\* time gives its hour; in a column with several colon texts the format is
\* inferred from the first one, so a valid time of another shape may become
\* NaT (multi).  A clock time with a field out of range gives NaT.  Any other
\* text is left to the library's lenient parser: NaT, midnight of the date
\* alone, or an hour read from the digits of the text.
HorasRelogio(t, multi) ==
    IF FormaRelogio(t) THEN
        IF RelogioValido(t)
        THEN {Some(ValorDecimal(Campos(t)[1]))} \cup (IF multi THEN {NA} ELSE {})
        ELSE {NA}
    ELSE {NA, Some(0)} \cup {Some(h) : h \in HorasLidas(t)}

\* s = serie.astype('string').str.strip(), row by row (NA stays NA)
ColunaStrip(vals) ==
    [i \in 1..Len(vals) |-> IF vals[i] = NA THEN NA ELSE Some(str_strip(vals[i][1]))]

\* com_dp = s.str.contains(":", na=False)
ComDp(s) == [i \in 1..Len(s) |-> s[i] # NA /\ TemDoisPontos(s[i][1])]

\* The results to_datetime may give for the column: one per row.  Rows that
\* are not handed to to_datetime carry NA.
ParsePossiveis(vals) ==
    LET s == ColunaStrip(vals)
        com_dp == ComDp(s)
        multi == Cardinality({i \in 1..Len(s) : com_dp[i]}) > 1
        Linha(i) == IF com_dp[i] THEN HorasRelogio(s[i][1], multi) ELSE {NA}
        RECURSIVE Ate(_)
        Ate(k) == IF k = 0 THEN {<<>>}
                  ELSE {Append(p, h) : p \in Ate(k - 1), h \in Linha(k)}
    IN Ate(Len(vals))

\* lens >= 6 ; lens.between(3, 5) ; lens <= 2   (line 99, 101, 103)
Mask6(lens) == lens >= 6
Mask4_5_Estreita(lens) == (lens >= 4 /\ lens <= 5) /\ ~Mask6(lens)
Mask4_5(lens) == (lens >= 3 /\ lens <= 5) /\ ~Mask6(lens)
MaskLe2(lens) == lens <= 2

\* Lines 97-104 for one row of s[sem_dp]: the three masked assignments, in
\* the order the code makes them, starting from the row's current value h.
\* A missing text has missing digits and lens, and every mask is then false.
HoraSemDp(si, h) ==
    IF si = NA THEN h
    ELSE LET digits == RemoverNaoDigitos(si[1])
             lens == Len(digits)
             h1 == IF Mask6(lens) THEN to_numeric(str_slice_0_2(digits)) ELSE h
             h2 == IF Mask4_5(lens) THEN to_numeric(str_slice_0_2(digits)) ELSE h1
             h3 == IF MaskLe2(lens) THEN to_numeric(digits) ELSE h2
         IN h3

\* horas.where((horas >= 0) & (horas <= 23)), line 105
Where0a23_SemLimite(h) == IF h # NA /\ h[1] >= 0 THEN h ELSE NA
Where0a23(h) == IF h # NA /\ h[1] >= 0 /\ h[1] <= 23 THEN h ELSE NA

\* .fillna(0).astype(int)
FillNa0(h) == IF h = NA THEN 0 ELSE h[1]

\* The whole function.  serie_ is [tipo, vals, comp]: tipo "ausente" is a
\* column that is None (or has no name), with vals as long as
\* df_criminal.index; "texto" carries its texts in vals; "datetime" and
\* "timedelta" carry in comp the hour component (.dt.hour,
\* .dt.components.hours) of each value.  parsed is what to_datetime
\* returned (line 91).
extrair_hora_robusta(serie_, parsed) ==
    LET vals == serie_.vals
        n == Len(vals)
    IN IF serie_.tipo = "ausente" THEN [i \in 1..n |-> 0]
       ELSE IF serie_.tipo \in {"datetime", "timedelta"}
       THEN [i \in 1..Len(serie_.comp) |-> FillNa0(serie_.comp[i])]
       ELSE
       LET s == ColunaStrip(vals)
           com_dp == ComDp(s)
           horas0 == [i \in 1..n |-> NA]
           horas1 == IF \E i \in 1..n : com_dp[i]
                     THEN [i \in 1..n |-> IF com_dp[i] THEN parsed[i] ELSE horas0[i]]
                     ELSE horas0
           sem_dp == [i \in 1..n |-> ~com_dp[i]]
           horas2 == IF \E i \in 1..n : sem_dp[i]
                     THEN [i \in 1..n |-> IF sem_dp[i] THEN HoraSemDp(s[i], horas1[i])
                                          ELSE horas1[i]]
                     ELSE horas1
       IN [i \in 1..n |-> FillNa0(Where0a23(horas2[i]))]

----------------------------------------------------------------------------
(* Inputs of the hour extractor *)

ValoresTexto == {NA} \cup {Some(t) : t \in Textos}
ValoresHora == {NA} \cup {Some(h) : h \in HorasAmostra}

Colunas(V) == UNION {[1..k -> V] : k \in 0..MaxLinhasHora}

SeriesEntrada ==
    {[tipo |-> "texto", vals |-> v, comp |-> <<>>] : v \in Colunas(ValoresTexto)}
    \cup {[tipo |-> tp, vals |-> <<>>, comp |-> c] :
              tp \in {"datetime", "timedelta"}, c \in Colunas(ValoresHora)}
    \cup {[tipo |-> "ausente", vals |-> v, comp |-> <<>>] : v \in Colunas({NA})}

----------------------------------------------------------------------------
(* Values of the variables a specification does not use *)

\* Every dropdown cleared: a dropdown value is NA (None) or Some(value)
SelNenhum ==
    [mes |-> NA, regiao |-> NA, cidade |-> NA, bairro |-> NA,
     natureza |-> NA, evento |-> NA, hora |-> NA]

SerieVazia == [tipo |-> "ausente", vals |-> <<>>, comp |-> <<>>]

----------------------------------------------------------------------------
(* SpecHora: df_criminal['hora'] = extrair_hora_robusta(...), line 108 *)

InitHora ==
    /\ pc = "hora_entrada"
    /\ serie \in SeriesEntrada
    /\ horas = <<>>
    /\ col_bairro = <<>>
    /\ col_regiao = <<>>
    /\ zona_i = 0
    /\ df_criminal = <<>>
    /\ df_eventos = <<>>
    /\ sel = SelNenhum
    /\ out = <<>>
    /\ SemViewers
    /\ SemCarga

ExtrairHora ==
    /\ pc = "hora_entrada"
    /\ \E parsed \in ParsePossiveis(serie.vals) :
           horas' = extrair_hora_robusta(serie, parsed)
    /\ pc' = "hora_feita"
    /\ UNCHANGED <<serie, col_bairro, col_regiao, zona_i, df_criminal, df_eventos,
                   sel, out, varsViewers, varsCarga>>

NextHora == ExtrairHora

SpecHora == InitHora /\ [][NextHora]_vars

----------------------------------------------------------------------------
(* Claims about the hour extractor *)

SemDigito(t) == \A i \in 1..Len(t) : ~EhDigito(t[i])

\* The digits of a text, left to right, as a sequence of numbers
DigitosDe(t) ==
    LET idx == {i \in 1..Len(t) : EhDigito(t[i])}
        RECURSIVE Lista(_)
        Lista(S) == IF S = {} THEN <<>>
                    ELSE LET m == CHOOSE x \in S : \A y \in S : x <= y
                         IN <<ValorDigito(t[m])>> \o Lista(S \ {m})
    IN Lista(idx)

\* The candidate hour of a text without a colon, as the claim words it:
\* -1 stands for "no candidate".
Candidato(t) ==
    LET d == DigitosDe(t)
    IN IF Len(d) >= 3 THEN 10 * d[1] + d[2]
       ELSE IF Len(d) = 2 THEN 10 * d[1] + d[2]
       ELSE IF Len(d) = 1 THEN d[1]
       ELSE -1

EsperadoSemDp(t) ==
    LET c == Candidato(t) IN IF c >= 0 /\ c <= 23 THEN c ELSE 0

\* A malformed or empty element: missing, without any digit (empty,
\* whitespace-only, non-numeric), a number out of range, or a clock time
\* whose fields are out of range.
Malformado(v) ==
    \/ v = NA
    \/ SemDigito(v[1])
    \/ ~TemDoisPontos(v[1]) /\ Candidato(v[1]) > 23
    \/ TemDoisPontos(v[1]) /\ FormaRelogio(str_strip(v[1])) /\ ~RelogioValido(str_strip(v[1]))

HoraFeitaTexto == pc = "hora_feita" /\ serie.tipo = "texto"

\* C1: for a text-valued column the extractor returns one integer per row,
\* each in 0..23, and every malformed or empty element yields 0.
C1_HoraNoIntervalo ==
    HoraFeitaTexto =>
        /\ Len(horas) = Len(serie.vals)
        /\ \A i \in 1..Len(horas) :
              /\ horas[i] \in 0..23
              /\ Malformado(serie.vals[i]) => horas[i] = 0

\* Witness of C1: an out-of-range number ("99") was extracted as 0.
C1_Witness ==
    /\ HoraFeitaTexto
    /\ \E i \in 1..Len(horas) :
          /\ serie.vals[i] = Some(<<"9", "9">>)
          /\ horas[i] = 0

\* C2: for a text without a colon the result is the candidate hour (the first
\* two digits when three or more digits remain, the digits themselves when
\* one or two remain) if it lies in 0..23 and 0 otherwise; a missing value
\* gives 0.
C2_HoraSemDoisPontos ==
    HoraFeitaTexto =>
        \A i \in 1..Len(serie.vals) :
            /\ serie.vals[i] = NA => horas[i] = 0
            /\ (serie.vals[i] # NA /\ ~TemDoisPontos(serie.vals[i][1]))
                   => horas[i] = EsperadoSemDp(serie.vals[i][1])

\* Witness of C2: "2130" was extracted as 21.
C2_Witness ==
    /\ HoraFeitaTexto
    /\ \E i \in 1..Len(horas) :
          /\ serie.vals[i] = Some(<<"2", "1", "3", "0">>)
          /\ horas[i] = 21

\* The other examples of the specification, as reachable results.
C2_Exemplos ==
    HoraFeitaTexto =>
        \A i \in 1..Len(horas) :
            /\ serie.vals[i] = Some(<<"0", "8", "3", "0", "0", "0">>) => horas[i] = 8
            /\ serie.vals[i] = Some(<<"7">>) => horas[i] = 7
            /\ serie.vals[i] = Some(<<>>) => horas[i] = 0

----------------------------------------------------------------------------
(* zonas_sao_paulo, src/app.py 111-199: the lists as written, in dict order *)

BairrosZonaNorte ==
    { "Água Fria", "Brasilândia", "Casa Verde", "Freguesia do Ó", "Jaçanã",
      "Jardim Japão", "Jardim Julieta", "Jardim Leme",
      "Jardim Leonor Mendes de Barros", "Jardim Mabel",
      "Jardim Recanto Verde", "Lauzane Paulista", "Limão", "Mandaqui",
      "Mata Fria", "Parada Inglesa", "Parque Edu Chaves", "Parque Mandaqui",
      "Parque Novo Mundo", "Parque Paineiras", "Parque Peruche",
      "Parque Rodrigues Alves", "Parque Palmas do Tremembé",
      "Parque Vila Guilherme", "Pari", "Perus", "Piqueri",
      "Residencial Sol Nascente", "Santa Terezinha", "Santana", "Tucuruvi",
      "Vila Albertina", "Vila Amália", "Vila Bancária", "Vila Brasilândia",
      "Vila Cachoeira", "Vila Dionísia", "Vila Ede", "Vila Elisa",
      "Vila Ester", "Vila Fenelon", "Vila Formosa", "Vila Guilherme",
      "Vila Gustavo", "Vila Mazzei", "Vila Medeiros", "Vila Nilo",
      "Vila Nova Cachoeirinha", "Vila Nova Mazzei", "Vila Nova Parada",
      "Vila Paiva", "Vila Perus", "Vila Pirituba", "Vila Sabrina",
      "Vila Santa Teresinha", "Vila Siqueira", "Vila Souza",
      "Vila Vergueiro", "Vila Vitória", "Vila Zat" }

BairrosZonaSul ==
    { "Chácara Flora", "Chácara Santo Antônio", "Cidade Dutra", "Ibirapuera",
      "Ipiranga", "Jabaquara", "Jardim América", "Jardim Ângela",
      "Jardim Arpoador", "Jardim da Glória", "Jardim das Oliveiras",
      "Jardim das Rosas", "Jardim do Carmo", "Jardim Maringá",
      "Jardim Mirante", "Jardim Monte Belo", "Jardim Monte Kemel",
      "Jardim Monte Verde", "Jardim Morais Prado", "Jardim Nardini",
      "Jardim Nova Vitória I", "Jardim Paris", "Jardim Paulista",
      "Jardim Paulistano", "Jardim Prudência", "Jardim Santa Amélia",
      "Jardim Santa Cruz", "Jardim Santa Helena", "Jardim Santa Rita",
      "Jardim Santo Amaro", "Jardim São João", "Jardim São José",
      "Jardim São Luís", "Jardim São Sebastião", "Jardim São Vicente",
      "Jardim Soraia", "Jardim Umuarama", "Jardim Vaz de Lima",
      "Jardim Vergueiro", "Jardins", "Jurubatuba", "Moema", "Morumbi",
      "Paraisópolis", "Parelheiros", "Parque Alto do Rio Bonito",
      "Parque Americano", "Parque Arariba", "Parque das Fontes",
      "Parque do Estado", "Parque Fernanda", "Parque Grajaú",
      "Parque Independência", "Parque Novo Grajaú",
      "Parque Novo Santo Amaro", "Parque Residencial Cocaia",
      "Parque Santo Amaro", "Parque Santo Antônio", "Parque São Paulo",
      "Parque São Rafael", "Parque Sevilha", "Pedreira", "Santo Amaro",
      "Sapopemba", "Saúde", "Socorro", "Vila Americana", "Vila Andrade",
      "Vila Arcádia", "Vila Bandeirantes", "Vila Brasilina",
      "Vila Campestre", "Vila Campo Grande", "Vila Caraguatá",
      "Vila Clemência", "Vila Clementino", "Vila das Mercês",
      "Vila do Encontro", "Vila Dom Pedro I", "Vila Fátima",
      "Vila Gertrudes", "Vila Guacuri", "Vila Guarani", "Vila Gumercindo",
      "Vila Inglesa", "Vila Joaniza", "Vila Mariana", "Vila Mascote",
      "Vila Missionária", "Vila Monumento", "Vila Moraes", "Vila Olímpia",
      "Vila Pedreira", "Vila Prudente", "Vila Remo", "Vila Santa Catarina",
      "Vila Santa Cecília", "Vila Santa Delphina", "Vila Santa Efigênia",
      "Vila Santa Tereza", "Vila São Francisco", "Vila São José",
      "Vila São Pedro", "Vila São Paulo", "Vila Socorro", "Vila Sofia",
      "Vila Suzana", "Vila Vera", "Vila do Sítio", "Várzea de Baixo" }

BairrosZonaLeste ==
    { "Aricanduva", "Artur Alvim", "Belém", "Cidade A. E. Carvalho",
      "Cidade Líder", "Cidade Patriarca", "Cidade São Mateus",
      "Cidade Tiradentes", "José Bonifácio", "Lajeado", "Mooca",
      "Parada Inglesa", "Parque Artur Alvim", "Parque do Carmo",
      "Parque do Estado", "Parque Fontene", "Parque Guainazes",
      "Parque Maria", "Parque Monte Líbano", "Parque Novo Mundo",
      "Parque Savóia", "Parque São Lucas", "Parque São Rafael", "Penha",
      "Ponte Rasa", "São Miguel Paulista", "Tatuapé", "Vila América",
      "Vila Antonieta", "Vila Aricanduva", "Vila Califórnia",
      "Vila Carmosina", "Vila Carrão", "Vila Cláudio", "Vila Divina Pastora",
      "Vila Ema", "Vila Formosa", "Vila Guilherme", "Vila Industrial",
      "Vila Jaçanã", "Vila Jacuí", "Vila Manchester", "Vila Maria",
      "Vila Marieta", "Vila Marilena", "Vila Mascote", "Vila Matilde",
      "Vila Nhocuné", "Vila Pimentel", "Vila Prudente", "Vila Santa Inês",
      "Vila Santa Teresinha", "Vila São Francisco", "Vila São Mateus",
      "Vila São Miguel", "Vila São Rafael", "Vila Silvia", "Vila Silveira",
      "Vila Siqueira", "Vila Talarico", "Vila Tolstoi", "Vila Zelina" }

BairrosZonaOeste ==
    { "Butantã", "Jaguaré", "Jaraguá", "Lapa", "Morumbi", "Perdizes",
      "Pinheiros", "Pirituba", "Pompeia", "Rio Pequeno", "Vila Iolanda",
      "Vila Ipojuca", "Vila Leopoldina", "Vila Madalena", "Vila Sônia" }

BairrosCentro ==
    { "Aclimação", "Barra Funda", "Bela Vista", "Bom Retiro", "Cambuci",
      "Campos Elíseos", "Consolação", "Higienópolis", "Jardim Anália Franco",
      "Jardim da Glória", "Jardim do Carmo", "Jardim Europa",
      "Jardim Paulista", "Liberdade", "Luz", "Pacaembu", "Pari",
      "Praça da Árvore", "República", "Santa Cecília", "Sé", "Vila Buarque",
      "Vila Monumento" }

BairrosOutrasLocalidades ==
    { "Jardim Vivan", "Jardim Wilma Flor", "Jardim Coimbra",
      "Jardim Vle Virtudes", "Vila Baby", "Vila Barreto", "Vila Bozzini",
      "Vila Brasilia", "Vila Chabilandia", "Vila Chely", "Vila Curuça Velha",
      "Vila Feliz", "Vila Franquis", "Vila Friburgo", "Vila Fukuya",
      "Vila Ger", "Vila Gertrudes", "Vila Heliopolis", "Vila Itaim",
      "Vila Jacu", "Vila Jaguari", "Vila Jaçanã", "Vila João", "Vila Jurema",
      "Vila Lousada", "Vila Mairiporã", "Vila Manuel", "Vila Mariazinha",
      "Vila Mariana", "Vila Mazzei", "Vila Monte", "Vila Morumbi",
      "Vila Nelson", "Vila Nova" }

zonas_sao_paulo_Invertida ==
    << [nome |-> "Outras Localidades", bairros |-> BairrosOutrasLocalidades],
       [nome |-> "Centro", bairros |-> BairrosCentro],
       [nome |-> "Zona Oeste", bairros |-> BairrosZonaOeste],
       [nome |-> "Zona Leste", bairros |-> BairrosZonaLeste],
       [nome |-> "Zona Sul", bairros |-> BairrosZonaSul],
       [nome |-> "Zona Norte", bairros |-> BairrosZonaNorte] >>
zonas_sao_paulo ==
    << [nome |-> "Zona Norte", bairros |-> BairrosZonaNorte],
       [nome |-> "Zona Sul", bairros |-> BairrosZonaSul],
       [nome |-> "Zona Leste", bairros |-> BairrosZonaLeste],
       [nome |-> "Zona Oeste", bairros |-> BairrosZonaOeste],
       [nome |-> "Centro", bairros |-> BairrosCentro],
       [nome |-> "Outras Localidades", bairros |-> BairrosOutrasLocalidades] >>

----------------------------------------------------------------------------
(* Region classification, src/app.py 200-202 *)

MaxLinhasRegiao == 1

OutraRegiao == "Outra Região"

TodosBairrosListados == UNION {zonas_sao_paulo[k].bairros : k \in 1..Len(zonas_sao_paulo)}

\* The neighbourhood values an occurrence row may carry: every listed name,
\* names no list holds (exact match only: case and spacing count), and NaN.
BairrosEntrada ==
    TodosBairrosListados \cup {"Bairro Desconhecido", "moema", "Moema ", NAstr}

ColunasBairro == UNION {[1..k -> BairrosEntrada] : k \in 0..MaxLinhasRegiao}

\* df_criminal[COLUNA_BAIRRO_CRIM].isin(bairros) for one row: NaN is in no list
isin(b, bairros) == b # NAstr /\ b \in bairros

\* One row of  df_criminal.loc[...isin(bairros), 'regiao'] = regiao  (line 202)
AtribuirRegiao_PrimeiraVence(reg, b, zona) ==
    IF isin(b, zona.bairros) /\ reg = OutraRegiao THEN zona.nome ELSE reg
AtribuirRegiao_OutrasAbsorvida(reg, b, zona) ==
    IF isin(b, zona.bairros) /\ zona.nome # "Outras Localidades" THEN zona.nome ELSE reg
AtribuirRegiao(reg, b, zona) ==
    IF isin(b, zona.bairros) THEN zona.nome ELSE reg

InitRegiao ==
    /\ pc = "regiao_inicio"
    /\ col_bairro \in ColunasBairro
    /\ col_regiao = <<>>
    /\ zona_i = 0
    /\ serie = SerieVazia
    /\ horas = <<>>
    /\ df_criminal = <<>>
    /\ df_eventos = <<>>
    /\ sel = SelNenhum
    /\ out = <<>>
    /\ SemViewers
    /\ SemCarga

\* df_criminal['regiao'] = 'Outra Região'  (line 200)
IniciarRegiao ==
    /\ pc = "regiao_inicio"
    /\ col_regiao' = [i \in 1..Len(col_bairro) |-> OutraRegiao]
    /\ zona_i' = 1
    /\ pc' = "regiao_loop"
    /\ UNCHANGED <<serie, horas, col_bairro, df_criminal, df_eventos, sel, out,
                   varsViewers, varsCarga>>

\* One iteration of  for regiao, bairros in zonas_sao_paulo.items()  (201-202)
AtribuirZona ==
    /\ pc = "regiao_loop"
    /\ zona_i <= Len(zonas_sao_paulo)
    /\ col_regiao' = [i \in 1..Len(col_bairro) |->
                         AtribuirRegiao(col_regiao[i], col_bairro[i],
                                        zonas_sao_paulo[zona_i])]
    /\ zona_i' = zona_i + 1
    /\ pc' = IF zona_i = Len(zonas_sao_paulo) THEN "regiao_feita" ELSE "regiao_loop"
    /\ UNCHANGED <<serie, horas, col_bairro, df_criminal, df_eventos, sel, out,
                   varsViewers, varsCarga>>

NextRegiao == IniciarRegiao \/ AtribuirZona

SpecRegiao == InitRegiao /\ [][NextRegiao]_vars

----------------------------------------------------------------------------
(* Claims about the region classification *)

ZonasDe(b) == {k \in 1..Len(zonas_sao_paulo) : b \in zonas_sao_paulo[k].bairros}

CincoZonas == {"Zona Norte", "Zona Sul", "Zona Leste", "Zona Oeste", "Centro"}

RegiaoFeita == pc = "regiao_feita"

\* C3 as stated: an occurrence whose neighbourhood is listed in zone Z is
\* assigned Z, for every zone listing it; a neighbourhood in no zone is
\* assigned 'Outra Região'.
C3_Original ==
    RegiaoFeita =>
        \A i \in 1..Len(col_bairro) :
            /\ \A k \in ZonasDe(col_bairro[i]) :
                   col_regiao[i] = zonas_sao_paulo[k].nome
            /\ ZonasDe(col_bairro[i]) = {} => col_regiao[i] = OutraRegiao

\* C3 (amended): an occurrence whose neighbourhood is listed in zone Z and in
\* no zone after Z in the table's order is assigned Z; a neighbourhood listed
\* in no zone is assigned 'Outra Região'.
C3_RegiaoDaUltimaZona ==
    RegiaoFeita =>
        \A i \in 1..Len(col_bairro) :
            /\ \A k \in ZonasDe(col_bairro[i]) :
                   (\A j \in ZonasDe(col_bairro[i]) : j <= k)
                       => col_regiao[i] = zonas_sao_paulo[k].nome
            /\ ZonasDe(col_bairro[i]) = {} => col_regiao[i] = OutraRegiao

\* Witness of C3: a neighbourhood listed in two zones (Pari: Zona Norte and
\* Centro) carries the later one, beside which the unlisted default exists.
C3_Witness ==
    /\ RegiaoFeita
    /\ \E i \in 1..Len(col_bairro) :
           col_bairro[i] = "Pari" /\ col_regiao[i] = "Centro"

\* C4 as stated: every region is one of the five zones or 'Outra Região', and
\* a neighbourhood listed only in 'Outras Localidades' gets 'Outra Região'.
C4_Original ==
    RegiaoFeita =>
        \A i \in 1..Len(col_regiao) :
            /\ col_regiao[i] \in CincoZonas \cup {OutraRegiao}
            /\ ZonasDe(col_bairro[i]) = {Len(zonas_sao_paulo)}
                   => col_regiao[i] = OutraRegiao

\* C4 (amended): every region is one of seven values, the five zones,
\* 'Outras Localidades' and the default 'Outra Região'; a neighbourhood listed
\* only in the 'Outras Localidades' set gets the label 'Outras Localidades'.
C4_SeteRegioes ==
    RegiaoFeita =>
        \A i \in 1..Len(col_regiao) :
            /\ col_regiao[i] \in CincoZonas \cup {"Outras Localidades", OutraRegiao}
            /\ (/\ col_bairro[i] \in BairrosOutrasLocalidades
                /\ \A k \in 1..(Len(zonas_sao_paulo) - 1) :
                       col_bairro[i] \notin zonas_sao_paulo[k].bairros)
                   => col_regiao[i] = "Outras Localidades"

\* Witness of C4: 'Vila Baby', listed only in 'Outras Localidades', carries
\* that label.
C4_Witness ==
    /\ RegiaoFeita
    /\ \E i \in 1..Len(col_bairro) :
           col_bairro[i] = "Vila Baby" /\ col_regiao[i] = "Outras Localidades"

----------------------------------------------------------------------------
(* pandas primitives used by the callback *)

Coluna(df, campo) == [i \in 1..Len(df) |-> df[i][campo]]

Valores(col) == {col[i] : i \in 1..Len(col)}

Contagem(col, v) == Cardinality({i \in 1..Len(col) : col[i] = v})

\* Series.value_counts(): distinct value -> number of rows
value_counts(col) == [v \in Valores(col) |-> Contagem(col, v)]

\* .sort_index().reindex(idx, fill_value=0)
reindex_SemPreencher(vc, idx) == [h \in idx \cap DOMAIN vc |-> vc[h]]
reindex(vc, idx) == [h \in idx |-> IF h \in DOMAIN vc THEN vc[h] ELSE 0]

MaxDe(hist) == CHOOSE m \in {hist[h] : h \in DOMAIN hist} :
                   \A h \in DOMAIN hist : hist[h] <= m

\* Series.idxmax(): the first label, in index order, that holds the maximum
idxmax_PrimeiroRotulo(hist) ==
    CHOOSE h \in DOMAIN hist : \A g \in DOMAIN hist : h <= g
idxmax(hist) ==
    CHOOSE h \in DOMAIN hist :
        hist[h] = MaxDe(hist) /\ \A g \in DOMAIN hist : g < h => hist[g] < MaxDe(hist)

\* Series.dropna() of a text column
dropna(col) == SelectSeq(col, LAMBDA x : x # NAstr)

Algarismos == <<"0", "1", "2", "3", "4", "5", "6", "7", "8", "9">>

RECURSIVE Decimal(_)
Decimal(n) ==
    IF n < 10 THEN <<Algarismos[n + 1]>>
    ELSE Decimal(n \div 10) \o <<Algarismos[(n % 10) + 1]>>

\* f"{h:02d}"
Fmt02d(h) == IF h < 10 THEN <<"0">> \o Decimal(h) ELSE Decimal(h)

\* f"{h:02d}:00"
HoraTxt(h) == Fmt02d(h) \o <<":", "0", "0">>

Fmt03d(n) == IF n < 10 THEN <<"0", "0">> \o Decimal(n)
             ELSE IF n < 100 THEN <<"0">> \o Decimal(n) ELSE Decimal(n)

\* f'{n:,}'.replace(',', '.')
RECURSIVE FormatarMilhar(_)
FormatarMilhar(n) ==
    IF n < 1000 THEN Decimal(n)
    ELSE FormatarMilhar(n \div 1000) \o <<".">> \o Fmt03d(n % 1000)

NaoAplicavel == <<"N", "/", "A">>

----------------------------------------------------------------------------
(* atualizar_dashboard_completo, src/app.py 543-689 *)

\* df[df[campo] == valor] applied to the table filtered so far.  A missing
\* value (NAstr) equals no dropdown value.  base is the unfiltered table.
Restringir_DaBase(filtrado, base, campo, valor) ==
    SelectSeq(base, LAMBDA r : r[campo] = valor)
Restringir(filtrado, base, campo, valor) ==
    SelectSeq(filtrado, LAMBDA r : r[campo] = valor)

\* Lines 545-566: the occurrence table narrowed by mes, cidade, bairro, hora,
\* regiao and natureza, in that order
FiltrarCriminal(base, s) ==
    LET c0 == base
        c1 == IF s.mes # NA THEN Restringir(c0, base, "mes", s.mes[1]) ELSE c0
        c2 == IF s.cidade # NA THEN Restringir(c1, base, "cidade", s.cidade[1]) ELSE c1
        c3 == IF s.bairro # NA THEN Restringir(c2, base, "bairro", s.bairro[1]) ELSE c2
        c4 == IF s.hora # NA THEN Restringir(c3, base, "hora", s.hora[1]) ELSE c3
        c5 == IF s.regiao # NA THEN Restringir(c4, base, "regiao", s.regiao[1]) ELSE c4
        c6 == IF s.natureza # NA
              THEN Restringir(c5, base, "natureza", s.natureza[1]) ELSE c5
    IN c6

\* Lines 546-570: the event table narrowed by mes, cidade, bairro, hora and
\* evento_nome, in that order
FiltrarEventos_ComNatureza(base, s) ==
    LET e0 == base
        e1 == IF s.mes # NA THEN Restringir(e0, base, "mes", s.mes[1]) ELSE e0
        e2 == IF s.cidade # NA THEN Restringir(e1, base, "cidade", s.cidade[1]) ELSE e1
        e3 == IF s.bairro # NA THEN Restringir(e2, base, "bairro", s.bairro[1]) ELSE e2
        e4 == IF s.hora # NA THEN Restringir(e3, base, "hora", s.hora[1]) ELSE e3
        e5 == IF s.natureza # NA
              THEN Restringir(e4, base, "evento_nome", s.natureza[1]) ELSE e4
        e6 == IF s.evento # NA
              THEN Restringir(e5, base, "evento_nome", s.evento[1]) ELSE e5
    IN e6
FiltrarEventos(base, s) ==
    LET e0 == base
        e1 == IF s.mes # NA THEN Restringir(e0, base, "mes", s.mes[1]) ELSE e0
        e2 == IF s.cidade # NA THEN Restringir(e1, base, "cidade", s.cidade[1]) ELSE e1
        e3 == IF s.bairro # NA THEN Restringir(e2, base, "bairro", s.bairro[1]) ELSE e2
        e4 == IF s.hora # NA THEN Restringir(e3, base, "hora", s.hora[1]) ELSE e3
        e5 == IF s.evento # NA
              THEN Restringir(e4, base, "evento_nome", s.evento[1]) ELSE e4
    IN e5

\* Line 573: df_criminal_filtrado[df_criminal_filtrado['hora'] != 0]
SemHoraZero_Nenhuma(filtrado) == filtrado
SemHoraZero(filtrado) == SelectSeq(filtrado, LAMBDA r : r.hora # 0)

\* [[lat, lon]].dropna().groupby([lat, lon]).size().reset_index(name="casos")
ContagemMapa(filtrado) ==
    LET com == SelectSeq(filtrado, LAMBDA r : r.latitude # NA /\ r.longitude # NA)
        pares == {<<com[i].latitude[1], com[i].longitude[1]>> : i \in 1..Len(com)}
    IN {[latitude |-> p[1], longitude |-> p[2],
         casos |-> Cardinality({i \in 1..Len(com) :
                      com[i].latitude[1] = p[1] /\ com[i].longitude[1] = p[2]})] :
           p \in pares}

RECURSIVE SomaDe(_, _)
SomaDe(S, campo) ==
    IF S = {} THEN 0
    ELSE LET x == CHOOSE y \in S : TRUE IN x[campo] + SomaDe(S \ {x}, campo)

\* Series.mean() of a non-empty column, kept as the fraction soma / n
Media(S, campo) == [soma |-> SomaDe(S, campo), n |-> Cardinality(S)]

\* Python truthiness of a dropdown value: None and "" are false
Verdadeiro(v) == v # NA /\ v[1] # ""

\* Lines 653-655; the coordinates in millionths of a degree
fixed_center_lat == -23550520
fixed_center_lon == -46633308
fixed_zoom == 12

\* go.Figure().add_annotation(text=...)
Anotacao(texto) ==
    [tipo |-> "anotacao", texto |-> texto, dados |-> {}, center |-> NA, zoom |-> NA]

\* px.density_mapbox(dados, ..., center=..., zoom=...)
DensityMapbox(dados, center, zoom) ==
    [tipo |-> "density_mapbox", texto |-> "", dados |-> dados,
     center |-> Some(center), zoom |-> Some(zoom)]

\* Lines 584-594
FigMapaCrim_RegiaoPrimeiro(contagem_mapa_crim, s) ==
    IF contagem_mapa_crim = {}
    THEN Anotacao("Nenhum dado encontrado para os filtros.")
    ELSE LET center_lat == Media(contagem_mapa_crim, "latitude")
             center_lon == Media(contagem_mapa_crim, "longitude")
             zoom == IF Verdadeiro(s.regiao) THEN 10
                     ELSE IF Verdadeiro(s.bairro) THEN 12 ELSE 9
         IN DensityMapbox(contagem_mapa_crim,
                          [lat |-> center_lat, lon |-> center_lon], zoom)
FigMapaCrim(contagem_mapa_crim, s) ==
    IF contagem_mapa_crim = {}
    THEN Anotacao("Nenhum dado encontrado para os filtros.")
    ELSE LET center_lat == Media(contagem_mapa_crim, "latitude")
             center_lon == Media(contagem_mapa_crim, "longitude")
             zoom == IF Verdadeiro(s.bairro) THEN 12
                     ELSE IF Verdadeiro(s.regiao) THEN 10 ELSE 9
         IN DensityMapbox(contagem_mapa_crim,
                          [lat |-> center_lat, lon |-> center_lon], zoom)

\* Lines 598-600: value_counts().sort_index().reindex(range(1, 24), fill_value=0)
OcorrenciasPorHoraCrim_Ate22(sem_hora_zero) ==
    reindex(value_counts(Coluna(sem_hora_zero, "hora")), 1..22)
OcorrenciasPorHoraCrim(sem_hora_zero) ==
    reindex(value_counts(Coluna(sem_hora_zero, "hora")), 1..23)

\* Lines 614-618 and 643-647: the most frequent hour as text
HorarioTxt_SemMax(hist) ==
    IF DOMAIN hist # {} THEN HoraTxt(idxmax(hist)) ELSE NaoAplicavel
HorarioTxt(hist) ==
    IF DOMAIN hist # {} /\ MaxDe(hist) > 0 THEN HoraTxt(idxmax(hist)) ELSE NaoAplicavel

\* Series.mode(): the most frequent present values (sorted by the library)
Modas(col) ==
    LET c == dropna(col)
    IN {v \in Valores(c) : \A w \in Valores(c) : Contagem(c, w) <= Contagem(c, v)}

\* The alphabetical order of the category names the tables carry
OrdemNaturezas == <<"Furto", "Roubo">>

\* mode().iloc[0]: the first of the sorted modes
PrimeiraModa(col) ==
    LET m == Modas(col)
        k == CHOOSE i \in 1..Len(OrdemNaturezas) :
                 /\ OrdemNaturezas[i] \in m
                 /\ \A j \in 1..(i - 1) : OrdemNaturezas[j] \notin m
    IN OrdemNaturezas[k]

\* Lines 621-624
NaturezaFrequente(filtrado) ==
    IF filtrado # <<>>
    THEN IF Modas(Coluna(filtrado, "natureza")) # {}
         THEN PrimeiraModa(Coluna(filtrado, "natureza")) ELSE "N/A"
    ELSE "N/A"

\* Lines 635-640 and 649: value_counts().index[0] of the present event names.
\* Which of several equally frequent names comes first is the library's
\* choice: a fixed but unspecified one.
TopEvento(filtrado) ==
    IF filtrado # <<>>
    THEN LET nomes == dropna(Coluna(filtrado, "evento_nome"))
             vc == value_counts(nomes)
         IN IF DOMAIN vc # {}
            THEN CHOOSE e \in DOMAIN vc : \A f \in DOMAIN vc : vc[f] <= vc[e]
            ELSE "N/A"
    ELSE "N/A"

\* Lines 642 and 668: value_counts().sort_index().reindex(range(24), fill_value=0)
ContagemHoraEventos(filtrado) ==
    reindex(value_counts(Coluna(filtrado, "hora")), 0..23)

\* Lines 635-650
HorarioTxtEventos(filtrado) ==
    IF filtrado # <<>> THEN HorarioTxt(ContagemHoraEventos(filtrado)) ELSE NaoAplicavel

\* Lines 657-664
FigMapaEventos(contagem_mapa_eventos) ==
    IF contagem_mapa_eventos # {}
    THEN DensityMapbox(contagem_mapa_eventos,
                       [lat |-> fixed_center_lat, lon |-> fixed_center_lon], fixed_zoom)
    ELSE Anotacao("Nenhum evento encontrado para os filtros selecionados.")

\* Lines 543-689 bind only names local to the function (lines 545-546 and 573
\* take copies, every filter is a boolean-index selection that builds a new
\* table): the module-level tables after a run are what they were before it.
GlobaisApos_SemCopia(crim, ev, s) ==
    [df_criminal |-> FiltrarCriminal(crim, s), df_eventos |-> FiltrarEventos(ev, s)]
GlobaisApos(crim, ev, s) == [df_criminal |-> crim, df_eventos |-> ev]

\* Lines 572-689: the filtered tables and the ten values the callback returns
\* for them; the whole callback filters (545-570) and then computes these.
GerarSaidas(df_criminal_filtrado, df_eventos_filtrado, s) ==
    LET df_criminal_sem_hora_zero == SemHoraZero(df_criminal_filtrado)
        contagem_mapa_crim == ContagemMapa(df_criminal_filtrado)
        ocorrencias_por_hora_crim == OcorrenciasPorHoraCrim(df_criminal_sem_hora_zero)
        total_ocorrencias == Len(df_criminal_sem_hora_zero)
        contagem_mapa_eventos == ContagemMapa(df_eventos_filtrado)
        total_eventos == Len(df_eventos_filtrado)
    IN [df_criminal_filtrado |-> df_criminal_filtrado,
        df_eventos_filtrado |-> df_eventos_filtrado,
        fig_mapa_crim |-> FigMapaCrim(contagem_mapa_crim, s),
        fig_hora_crim |-> ocorrencias_por_hora_crim,
        card_ocorrencias |-> FormatarMilhar(total_ocorrencias),
        card_horario |-> HorarioTxt(ocorrencias_por_hora_crim),
        card_natureza |-> NaturezaFrequente(df_criminal_filtrado),
        fig_mapa_eventos |-> FigMapaEventos(contagem_mapa_eventos),
        fig_hora_eventos |-> ContagemHoraEventos(df_eventos_filtrado),
        card_evento_frequente |-> TopEvento(df_eventos_filtrado),
        card_horario_eventos |-> HorarioTxtEventos(df_eventos_filtrado),
        card_total_eventos |-> FormatarMilhar(total_eventos)]

atualizar_dashboard_completo(crim, ev, s) ==
    GerarSaidas(FiltrarCriminal(crim, s), FiltrarEventos(ev, s), s)

----------------------------------------------------------------------------
(* The base tables and the dropdown options *)

MaxLinhas == 2

\* The region the startup loop (lines 200-202) leaves on a row
RECURSIVE RegiaoApos(_, _)
RegiaoApos(b, k) ==
    IF k = 0 THEN OutraRegiao
    ELSE AtribuirRegiao(RegiaoApos(b, k - 1), b, zonas_sao_paulo[k])

RegiaoDe(b) == RegiaoApos(b, Len(zonas_sao_paulo))

MesesCrim == {1, 2}
BairrosCrim == {"Moema", "Pari"}
NaturezasCrim == {"Furto", "Roubo"}
HorasCrim == {0, 9, 23}
CoordsCrim == {[latitude |-> NA, longitude |-> NA],
               [latitude |-> Some(-2360), longitude |-> Some(-4666)]}

\* The number of fields in which two rows differ
NDif(r, ref) == Cardinality({c \in DOMAIN ref : r[c] # ref[c]})

\* The rows the tables are drawn from: a reference row and every row that
\* differs from it in one field.
Amostra(produto, ref) == {r \in produto : NDif(r, ref) <= 1}

CrimRef ==
    [mes |-> 1, bairro |-> "Moema", natureza |-> "Furto", hora |-> 9,
     coord |-> [latitude |-> Some(-2360), longitude |-> Some(-4666)]]

\* A row of df_criminal as startup leaves it (lines 62-66, 108, 200-202):
\* city constant, hour in 0..23, region from the neighbourhood
LinhasCrim ==
    {[mes |-> r.mes, cidade |-> "São Paulo", bairro |-> r.bairro,
      natureza |-> r.natureza, hora |-> r.hora, regiao |-> RegiaoDe(r.bairro),
      latitude |-> r.coord.latitude, longitude |-> r.coord.longitude] :
        r \in Amostra([mes : MesesCrim, bairro : BairrosCrim,
                       natureza : NaturezasCrim, hora : HorasCrim,
                       coord : CoordsCrim], CrimRef)}

MesesEv == {1, 2}
BairrosEv == {"Moema", NAstr}
CidadesEv == {"São Paulo", "Santos"}
NomesEv == {"Show", "Feira"}
HorasEv == {0, 9}

EvRef == [mes |-> 1, cidade |-> "São Paulo", bairro |-> "Moema",
          evento_nome |-> "Show", hora |-> 9]

\* A row of df_eventos as startup leaves it (lines 234-248): coordinates
\* present, hour from the timestamp, texts title-cased or missing
LinhasEv ==
    {[mes |-> r.mes, cidade |-> r.cidade, bairro |-> r.bairro,
      evento_nome |-> r.evento_nome, hora |-> r.hora,
      latitude |-> Some(-2355), longitude |-> Some(-4663)] :
        r \in Amostra([mes : MesesEv, cidade : CidadesEv, bairro : BairrosEv,
                       evento_nome : NomesEv, hora : HorasEv], EvRef)}

Tabelas(L, n) == UNION {[1..k -> L] : k \in 0..n}

\* The values each dropdown offers besides "cleared"
OpcoesFiltro ==
    [mes |-> {Some(1)}, regiao |-> {Some("Zona Sul")}, cidade |-> {Some("São Paulo")},
     bairro |-> {Some("Moema")}, natureza |-> {Some("Furto")},
     evento |-> {Some("Show")}, hora |-> {Some(9)}]

Dimensoes == DOMAIN OpcoesFiltro

----------------------------------------------------------------------------
(* Spec: the served page.  Startup has built the two tables; the page's first
   request runs the callback with every dropdown cleared; each interaction
   changes one dropdown and runs the callback again. *)

Init ==
    /\ pc = "servindo"
    /\ \E nc \in 0..MaxLinhas :
          /\ df_criminal \in [1..nc -> LinhasCrim]
          /\ df_eventos \in Tabelas(LinhasEv, MaxLinhas - nc)
    /\ sel = SelNenhum
    /\ out = atualizar_dashboard_completo(df_criminal, df_eventos, SelNenhum)
    /\ serie = SerieVazia
    /\ horas = <<>>
    /\ col_bairro = <<>>
    /\ col_regiao = <<>>
    /\ zona_i = 0
    /\ SemViewers
    /\ SemCarga

\* One interaction of the viewer: a dropdown is set or cleared and Dash calls
\* atualizar_dashboard_completo with the seven current values.
Interacao ==
    /\ pc = "servindo"
    /\ \E d \in Dimensoes :
          \E v \in OpcoesFiltro[d] \cup {NA} :
              /\ v # sel[d]
              /\ sel' = [sel EXCEPT ![d] = v]
    /\ out' = atualizar_dashboard_completo(df_criminal, df_eventos, sel')
    /\ df_criminal' = GlobaisApos(df_criminal, df_eventos, sel').df_criminal
    /\ df_eventos' = GlobaisApos(df_criminal, df_eventos, sel').df_eventos
    /\ UNCHANGED <<pc, serie, horas, col_bairro, col_regiao, zona_i, varsViewers,
                   varsCarga>>

Next == Interacao

Spec == Init /\ [][Next]_vars

----------------------------------------------------------------------------
(* Properties of the callback *)

\* The table column each dropdown is compared with
CampoDe == [mes |-> "mes", regiao |-> "regiao", cidade |-> "cidade",
            bairro |-> "bairro", natureza |-> "natureza",
            evento |-> "evento_nome", hora |-> "hora"]

\* Row r agrees with every dropdown of dims that selection s has set
Atende(r, s, dims) == \A d \in dims : s[d] # NA => r[CampoDe[d]] = s[d][1]

DimsCrim == {"mes", "cidade", "bairro", "hora", "regiao", "natureza"}
DimsEv == {"mes", "cidade", "bairro", "hora", "evento"}

\* The number of rows of a table at hour h
LinhasNaHora(df, h) == Cardinality({i \in 1..Len(df) : df[i].hora = h})

\* The step sets one dropdown that was cleared and leaves the others alone
UmaDimensaoAMais ==
    \E d \in Dimensoes :
        /\ sel[d] = NA
        /\ sel'[d] # NA
        /\ \A e \in Dimensoes \ {d} : sel'[e] = sel[e]

\* C5: setting one more dropdown never increases the filtered occurrence row
\* count nor the filtered event row count, and neither count ever exceeds the
\* row count of the unfiltered table.
C5_FiltragemMonotona ==
    [][/\ UmaDimensaoAMais =>
             /\ Len(out'.df_criminal_filtrado) <= Len(out.df_criminal_filtrado)
             /\ Len(out'.df_eventos_filtrado) <= Len(out.df_eventos_filtrado)
       /\ Len(out'.df_criminal_filtrado) <= Len(df_criminal')
       /\ Len(out'.df_eventos_filtrado) <= Len(df_eventos')]_vars

\* Witness of C5: with month and neighbourhood both set, each table has lost
\* rows to the filters.
C5_Witness ==
    /\ sel.mes # NA
    /\ sel.bairro # NA
    /\ Len(out.df_criminal_filtrado) < Len(df_criminal)
    /\ Len(out.df_eventos_filtrado) < Len(df_eventos)

\* C6: the occurrence histogram has one entry for each hour 1..23 and none
\* for hour 0, the event histogram one entry for each hour 0..23; each entry
\* is the number of filtered rows of its table at that hour, 0 where there
\* are none.
C6_Histogramas ==
    /\ DOMAIN out.fig_hora_crim = 1..23
    /\ \A h \in 1..23 :
           out.fig_hora_crim[h] = LinhasNaHora(out.df_criminal_filtrado, h)
    /\ DOMAIN out.fig_hora_eventos = 0..23
    /\ \A h \in 0..23 :
           out.fig_hora_eventos[h] = LinhasNaHora(out.df_eventos_filtrado, h)

\* Witness of C6: under a month filter one occurrence at 09h and one event at
\* 00h remain; their bars are 1 and the other bars 0.
C6_Witness ==
    /\ sel.mes # NA
    /\ Len(out.df_criminal_filtrado) = 1
    /\ out.fig_hora_crim[9] = 1
    /\ out.fig_hora_crim[23] = 0
    /\ Len(out.df_eventos_filtrado) = 1
    /\ out.fig_hora_eventos[0] = 1
    /\ out.fig_hora_eventos[9] = 0

\* The filtered occurrence rows whose hour is not 0
ForaDaHoraZero ==
    {i \in 1..Len(out.df_criminal_filtrado) : out.df_criminal_filtrado[i].hora # 0}

\* The filtered occurrence rows, of any hour, that carry both coordinates
ComCoordenadas ==
    {i \in 1..Len(out.df_criminal_filtrado) :
        /\ out.df_criminal_filtrado[i].latitude # NA
        /\ out.df_criminal_filtrado[i].longitude # NA}

C8_ResultadoVazio ==
    /\ out.df_criminal_filtrado = <<>> =>
           /\ out.fig_mapa_crim.tipo = "anotacao"
           /\ out.fig_mapa_crim.dados = {}
           /\ \A h \in DOMAIN out.fig_hora_crim : out.fig_hora_crim[h] = 0
           /\ out.card_natureza = "N/A"
           /\ out.card_horario = <<"N", "/", "A">>
           /\ out.card_ocorrencias = <<"0">>
    /\ out.df_eventos_filtrado = <<>> =>
           /\ out.fig_mapa_eventos.tipo = "anotacao"
           /\ out.fig_mapa_eventos.dados = {}
           /\ \A h \in DOMAIN out.fig_hora_eventos : out.fig_hora_eventos[h] = 0
           /\ out.card_evento_frequente = "N/A"
           /\ out.card_horario_eventos = <<"N", "/", "A">>
           /\ out.card_total_eventos = <<"0">>

\* Witness of C8: both base tables have rows and the filters leave none.
C8_Witness ==
    /\ df_criminal # <<>>
    /\ df_eventos # <<>>
    /\ out.df_criminal_filtrado = <<>>
    /\ out.df_eventos_filtrado = <<>>
    /\ out.fig_mapa_crim.tipo = "anotacao"
    /\ out.card_horario = <<"N", "/", "A">>

\* C9 as stated: when the filtered occurrence set is non-empty the hour card
\* reads 'HH:00' for an hour whose row count is highest among hours 0..23.
C9_Original ==
    out.df_criminal_filtrado # <<>> =>
        \E h \in 0..23 :
            /\ out.card_horario = HoraTxt(h)
            /\ \A g \in 0..23 : LinhasNaHora(out.df_criminal_filtrado, g)
                                    <= LinhasNaHora(out.df_criminal_filtrado, h)

\* C9 (amended): when some filtered occurrence row has an hour other than 0
\* the hour card reads 'HH:00' for an hour whose row count is highest among
\* hours 1..23 of the filtered set, rows at hour 0 being left out; when the
\* filtered set is non-empty and all of its rows are at hour 0 the card reads
\* 'N/A'.
C9_HoraMaisFrequente ==
    /\ ForaDaHoraZero # {} =>
           \E h \in 1..23 :
               /\ out.card_horario = HoraTxt(h)
               /\ \A g \in 1..23 : LinhasNaHora(out.df_criminal_filtrado, g)
                                       <= LinhasNaHora(out.df_criminal_filtrado, h)
    /\ (out.df_criminal_filtrado # <<>> /\ ForaDaHoraZero = {}) =>
           out.card_horario = <<"N", "/", "A">>

\* Witness of C9: a filter on neighbourhood leaves occurrences at 00h and at
\* 23h, and the card reads 23:00.
C9_Witness ==
    /\ sel.bairro # NA
    /\ LinhasNaHora(out.df_criminal_filtrado, 0) = 1
    /\ LinhasNaHora(out.df_criminal_filtrado, 23) = 1
    /\ out.card_horario = <<"2", "3", ":", "0", "0">>

\* The occurrence side and the event side of what the callback computes
SaidasCrim(o) ==
    <<o.df_criminal_filtrado, o.fig_hora_crim, o.card_ocorrencias,
      o.card_horario, o.card_natureza, o.fig_mapa_crim.dados>>
SaidasEv(o) ==
    <<o.df_eventos_filtrado, o.fig_mapa_eventos, o.fig_hora_eventos,
      o.card_evento_frequente, o.card_horario_eventos, o.card_total_eventos>>

\* C10: the filtered occurrence table holds the base rows that agree with
\* the month, city, neighbourhood, hour, region and category dropdowns, the
\* filtered event table those that agree with month, city, neighbourhood,
\* hour and event name; a step that changes the category or the region leaves
\* the filtered event table and every event output as they were, and a step
\* that changes the event name leaves the filtered occurrence table and every
\* occurrence output as they were.
C10_EscopoDosFiltros ==
    /\ [](/\ out.df_criminal_filtrado =
                 SelectSeq(df_criminal, LAMBDA r : Atende(r, sel, DimsCrim))
          /\ out.df_eventos_filtrado =
                 SelectSeq(df_eventos, LAMBDA r : Atende(r, sel, DimsEv)))
    /\ [][/\ (\A d \in Dimensoes \ {"natureza", "regiao"} : sel'[d] = sel[d])
                 => SaidasEv(out') = SaidasEv(out)
          /\ (\A d \in Dimensoes \ {"evento"} : sel'[d] = sel[d])
                 => SaidasCrim(out') = SaidasCrim(out)]_vars

\* Witness of C10: the category filter has taken rows from the occurrence
\* table while the event table, with rows in it, is whole.
C10_Witness ==
    /\ sel.natureza # NA
    /\ sel.evento = NA
    /\ Len(out.df_criminal_filtrado) < Len(df_criminal)
    /\ df_eventos # <<>>
    /\ out.df_eventos_filtrado = df_eventos

\* C11: no run of the callback changes the base tables: after every step
\* df_criminal and df_eventos hold the rows and values they held before it,
\* and so, step after step, those they held when startup finished.
C11_TabelasBaseImutaveis ==
    [][df_criminal' = df_criminal /\ df_eventos' = df_eventos]_vars

\* Witness of C11: the callback has run with category and event name set and
\* has filtered rows out of both of its copies, while the base tables still
\* hold rows.
C11_Witness ==
    /\ sel.natureza # NA
    /\ sel.evento # NA
    /\ df_criminal # <<>>
    /\ df_eventos # <<>>
    /\ out.df_criminal_filtrado = <<>>
    /\ out.df_eventos_filtrado = <<>>

----------------------------------------------------------------------------
(* Several viewers.  Dash serves every interaction as an invocation of the
   callback of its own, and the server runs the invocations of different
   viewers interleaved.  An invocation is three steps: the copies of lines
   545-546, the filters of lines 549-570, and the outputs of lines 572-689
   with the return. *)

MaxViewers == 2
MaxLinhasViewers == 1

Viewers == 1..MaxViewers

\* The selections the viewers send: nothing set, or one of month, category
\* and event name
SelecoesViewers ==
    {SelNenhum} \cup
    UNION {{[SelNenhum EXCEPT ![d] = v] : v \in OpcoesFiltro[d]} :
              d \in {"mes", "natureza", "evento"}}

\* The call frame that holds the locals of viewer v's invocation: every call
\* of a Python function has a frame of its own
Quadro_Compartilhado(v) == 1
Quadro(v) == v

QuadroVazio == [df_criminal_filtrado |-> <<>>, df_eventos_filtrado |-> <<>>]

PedidoOcioso == [fase |-> "ocioso", sel |-> SelNenhum, resposta |-> NA]

InitViewers ==
    /\ pc = "servindo"
    /\ \E nc \in 0..MaxLinhasViewers :
          /\ df_criminal \in [1..nc -> LinhasCrim]
          /\ df_eventos \in Tabelas(LinhasEv, MaxLinhasViewers - nc)
    /\ pedidos = [v \in Viewers |-> PedidoOcioso]
    /\ quadros = [q \in Viewers |-> QuadroVazio]
    /\ sel = SelNenhum
    /\ out = <<>>
    /\ serie = SerieVazia
    /\ horas = <<>>
    /\ col_bairro = <<>>
    /\ col_regiao = <<>>
    /\ zona_i = 0
    /\ SemCarga

\* Lines 543-546: the invocation starts with its arguments and copies the
\* base tables into its locals
Chamar(v) ==
    /\ pedidos[v].fase = "ocioso"
    /\ \E s \in SelecoesViewers :
           pedidos' = [pedidos EXCEPT
                          ![v] = [fase |-> "copiado", sel |-> s, resposta |-> NA]]
    /\ quadros' = [quadros EXCEPT
                      ![Quadro(v)] = [df_criminal_filtrado |-> df_criminal,
                                      df_eventos_filtrado |-> df_eventos]]
    /\ UNCHANGED <<pc, serie, horas, col_bairro, col_regiao, zona_i, df_criminal,
                   df_eventos, sel, out, varsCarga>>

\* Lines 549-570: the filters narrow the locals
Filtrar(v) ==
    /\ pedidos[v].fase = "copiado"
    /\ LET q == quadros[Quadro(v)]
       IN quadros' = [quadros EXCEPT
              ![Quadro(v)] =
                  [df_criminal_filtrado |->
                       FiltrarCriminal(q.df_criminal_filtrado, pedidos[v].sel),
                   df_eventos_filtrado |->
                       FiltrarEventos(q.df_eventos_filtrado, pedidos[v].sel)]]
    /\ pedidos' = [pedidos EXCEPT ![v].fase = "filtrado"]
    /\ UNCHANGED <<pc, serie, horas, col_bairro, col_regiao, zona_i, df_criminal,
                   df_eventos, sel, out, varsCarga>>

\* Lines 572-689: the outputs are computed from the locals and returned; the
\* frame is discarded
Responder(v) ==
    /\ pedidos[v].fase = "filtrado"
    /\ LET q == quadros[Quadro(v)]
       IN pedidos' = [pedidos EXCEPT
              ![v].fase = "ocioso",
              ![v].resposta = Some(GerarSaidas(q.df_criminal_filtrado,
                                               q.df_eventos_filtrado,
                                               pedidos[v].sel))]
    /\ quadros' = [quadros EXCEPT ![Quadro(v)] = QuadroVazio]
    /\ UNCHANGED <<pc, serie, horas, col_bairro, col_regiao, zona_i, df_criminal,
                   df_eventos, sel, out, varsCarga>>

NextViewers == \E v \in Viewers : Chamar(v) \/ Filtrar(v) \/ Responder(v)

SpecViewers == InitViewers /\ [][NextViewers]_vars

\* C12: under every interleaving, the response of an invocation is what its
\* own selection gives on the base tables when the callback runs alone, and
\* a step of one viewer's invocation leaves the invocation, the response and
\* the locals of every other viewer as they were.
C12_ViewersIndependentes ==
    /\ [](\A v \in Viewers :
              pedidos[v].resposta # NA =>
                  pedidos[v].resposta[1] =
                      atualizar_dashboard_completo(df_criminal, df_eventos,
                                                   pedidos[v].sel))
    /\ [][\A v \in Viewers : \A w \in Viewers \ {v} :
              pedidos'[v] # pedidos[v] =>
                  pedidos'[w] = pedidos[w] /\ quadros'[w] = quadros[w]]_vars

\* Witness of C12: viewer 1 holds the response to a category filter that
\* left it no occurrence while viewer 2, with nothing selected, is between
\* its filters and its outputs with the occurrence in its locals.
C12_Witness ==
    /\ pedidos[1].resposta # NA
    /\ pedidos[1].sel.natureza # NA
    /\ pedidos[1].resposta[1].df_criminal_filtrado = <<>>
    /\ pedidos[2].fase = "filtrado"
    /\ pedidos[2].sel = SelNenhum
    /\ quadros[2].df_criminal_filtrado # <<>>

----------------------------------------------------------------------------
(* Startup: the script from the load of the occurrence file to the option
   lists, src/app.py 33-75 and 205-272.  Hour extraction (78-108) and region
   classification (111-202) are the subjects of SpecHora and SpecRegiao and
   are left out of the rows here.  Texts are sequences of characters; a field
   that may be missing is NA or Some(text). *)

Minusculas == <<"a", "b", "c", "d", "e", "f", "g", "h", "i", "j", "k", "l", "m", "n", "o", "p", "q", "r", "s", "t", "u", "v", "w", "x", "y", "z">>
Maiusculas == <<"A", "B", "C", "D", "E", "F", "G", "H", "I", "J", "K", "L", "M", "N", "O", "P", "Q", "R", "S", "T", "U", "V", "W", "X", "Y", "Z">>

PosEm(seq, c) == CHOOSE i \in 1..Len(seq) : seq[i] = c
EhMinuscula(c) == \E i \in 1..Len(Minusculas) : Minusculas[i] = c
EhMaiuscula(c) == \E i \in 1..Len(Maiusculas) : Maiusculas[i] = c

\* str.islower() or str.isupper() of one character (unaccented letters)
TemCaixa(c) == EhMinuscula(c) \/ EhMaiuscula(c)

Minuscula(c) == IF EhMaiuscula(c) THEN Minusculas[PosEm(Maiusculas, c)] ELSE c
Maiuscula(c) == IF EhMinuscula(c) THEN Maiusculas[PosEm(Minusculas, c)] ELSE c

\* .str.lower()
str_lower(t) == [i \in 1..Len(t) |-> Minuscula(t[i])]

\* .str.replace(' ', '_', regex=False)
str_replace_espaco(t) == [i \in 1..Len(t) |-> IF t[i] = " " THEN "_" ELSE t[i]]

\* .str.title(): a letter that follows a letter is lowered, any other letter
\* is raised
str_title(t) ==
    [i \in 1..Len(t) |->
        IF i > 1 /\ TemCaixa(t[i - 1]) THEN Minuscula(t[i]) ELSE Maiuscula(t[i])]

\* The characters of the model in code-point order, as sorted() compares them
Caracteres == <<" ">> \o Maiusculas \o <<"_">> \o Minusculas \o <<"ã">>

RECURSIVE TextoMenorIgual(_, _)
TextoMenorIgual(a, b) ==
    IF a = <<>> THEN TRUE
    ELSE IF b = <<>> THEN FALSE
    ELSE IF a[1] = b[1] THEN TextoMenorIgual(Tail(a), Tail(b))
    ELSE PosEm(Caracteres, a[1]) < PosEm(Caracteres, b[1])

\* sorted(...) of a set of texts
RECURSIVE sorted(_)
sorted(S) ==
    IF S = {} THEN <<>>
    ELSE LET m == CHOOSE x \in S : \A y \in S : TextoMenorIgual(x, y)
         IN <<m>> \o sorted(S \ {m})

\* sorted(...) of a set of numbers
RECURSIVE sorted_num(_)
sorted_num(S) ==
    IF S = {} THEN <<>>
    ELSE LET m == CHOOSE x \in S : \A y \in S : x <= y
         IN <<m>> \o sorted_num(S \ {m})

\* Line 48: df_criminal.columns.str.lower().str.replace(' ', '_', regex=False)
NormalizarColuna(t) == str_replace_espaco(str_lower(t))

\* pd.to_datetime(..., errors='coerce') of the date texts of the model: the
\* month and the hour of a date it can read, NaT for anything else
to_datetime(x) ==
    IF x = "2024-01-15" THEN Some([mes |-> 1, hora |-> 0])
    ELSE IF x = "2024-02-10 20:00" THEN Some([mes |-> 2, hora |-> 20])
    ELSE NA

\* pd.to_numeric(..., errors="coerce") of the coordinate texts of the model,
\* in hundredths of a degree
to_numeric_coord(x) ==
    IF x = "-23.55" THEN Some(-2355)
    ELSE IF x = "-46.63" THEN Some(-4663)
    ELSE NA

\* Lines 70-73
nomes_meses ==
    <<"Janeiro", "Fevereiro", "Março", "Abril", "Maio", "Junho", "Julho",
      "Agosto", "Setembro", "Outubro", "Novembro", "Dezembro">>

DATA_OCORRENCIA_BO == <<"d", "a", "t", "a", "_", "o", "c", "o", "r", "r", "e", "n", "c", "i", "a", "_", "b", "o">>
DATAOCORRENCIA == <<"d", "a", "t", "a", "o", "c", "o", "r", "r", "e", "n", "c", "i", "a">>
SAO_PAULO == <<"S", "ã", "o", " ", "P", "a", "u", "l", "o">>

MaxLinhasCarga == 1
MaxEventos == 2
MaxLocais == 2

EstadosArquivo == {"ok", "ausente", "ilegivel"}

\* The column headers of the occurrence sheet, as written in the file
CabecalhosCrim ==
    {{<<"d", "a", "t", "a", "_", "o", "c", "o", "r", "r", "e", "n", "c", "i", "a", "_", "b", "o">>}, {<<"d", "a", "t", "a", "o", "c", "o", "r", "r", "e", "n", "c", "i", "a">>}, {<<"d", "a", "t", "a", "_", "o", "c", "o", "r", "r", "e", "n", "c", "i", "a", "_", "b", "o">>, <<"d", "a", "t", "a", "o", "c", "o", "r", "r", "e", "n", "c", "i", "a">>}, {<<"D", "a", "t", "a", " ", "O", "c", "o", "r", "r", "e", "n", "c", "i", "a", " ", "B", "O">>}, {<<"D", "a", "t", "a", "O", "c", "o", "r", "r", "e", "n", "c", "i", "a">>}, {<<"d", "a", "t", "a">>}}

\* Rows of the occurrence sheet: the text of the date cell and the
\* neighbourhood
LinhasCrimBrutas ==
    {[data |-> "2024-01-15", bairro |-> Some(<<"P", "a", "r", "i">>)],
     [data |-> "sem data", bairro |-> Some(<<"P", "a", "r", "i">>)]}

EventoRef ==
    [local_id |-> 1, evento_nome |-> Some(<<"s", "h", "o", "w">>), bairro |-> Some(<<" ", "v", "i", "l", "a", " ", "S", "O", "N", "I", "A">>),
     cidade |-> Some(<<"s", "a", "n", "t", "o", "s">>), data_evento |-> "2024-02-10 20:00"]

\* Records of the events file: the reference record and its one-field variants
EventosBrutos ==
    Amostra([local_id : {1, 2},
             evento_nome : {Some(<<"s", "h", "o", "w">>)},
             bairro : {NA, Some(<<>>), Some(<<" ", " ">>), Some(<<" ", "v", "i", "l", "a", " ", "S", "O", "N", "I", "A">>)},
             cidade : {Some(<<"s", "a", "n", "t", "o", "s">>), Some(<<" ">>)},
             data_evento : {"2024-02-10 20:00", "a definir"}], EventoRef)

\* The records of the events file that differ from the reference record in
\* the venue or in the date only
EventosDaJuncao ==
    {e \in EventosBrutos : e.bairro = EventoRef.bairro /\ e.cidade = EventoRef.cidade}

\* Records of the venues file
LocaisBrutos ==
    {[id |-> 1, latitude |-> "-23.55", longitude |-> "-46.63"],
     [id |-> 2, latitude |-> "-23.55", longitude |-> "-46.63"],
     [id |-> 1, latitude |-> "s/n", longitude |-> "-46.63"]}

LinhaCrimRef == [data |-> "2024-01-15", bairro |-> Some(<<"P", "a", "r", "i">>)]
LocalRef == [id |-> 1, latitude |-> "-23.55", longitude |-> "-46.63"]

\* What startup may find on disk: any combination of present, missing and
\* unreadable files and of date headers around one-record contents; readable
\* files with any sheet and any events within the bounds over two distinct
\* venues; and readable files with any venues within the bounds, joined by
\* events that differ in venue and date, beside the one-row sheet
ArquivosPossiveis ==
    {[criminal |-> [estado |-> ec, colunas |-> cab, linhas |-> <<LinhaCrimRef>>],
      eventos |-> [estado |-> ee, registros |-> <<EventoRef>>],
      locais |-> [estado |-> el, registros |-> <<LocalRef>>]] :
        ec \in EstadosArquivo, ee \in EstadosArquivo, el \in EstadosArquivo,
        cab \in CabecalhosCrim}
    \cup
    {[criminal |-> [estado |-> "ok", colunas |-> {<<"d", "a", "t", "a", "_", "o", "c", "o", "r", "r", "e", "n", "c", "i", "a", "_", "b", "o">>}, linhas |-> lc],
      eventos |-> [estado |-> "ok", registros |-> ev],
      locais |-> [estado |-> "ok", registros |-> <<LocalRef, [LocalRef EXCEPT !.id = 2]>>]] :
        lc \in Tabelas(LinhasCrimBrutas, MaxLinhasCarga),
        ev \in Tabelas(EventosBrutos, MaxEventos)}
    \cup
    {[criminal |-> [estado |-> "ok", colunas |-> {<<"d", "a", "t", "a", "_", "o", "c", "o", "r", "r", "e", "n", "c", "i", "a", "_", "b", "o">>}, linhas |-> <<LinhaCrimRef>>],
      eventos |-> [estado |-> "ok", registros |-> ev],
      locais |-> [estado |-> "ok", registros |-> lo]] :
        ev \in Tabelas(EventosDaJuncao, MaxEventos),
        lo \in Tabelas(LocaisBrutos, MaxLocais)}

InitCarga ==
    /\ pc = "inicio"
    /\ arquivos \in ArquivosPossiveis
    /\ COLUNA_DATA_CRIM = <<>>
    /\ opcoes = <<>>
    /\ df_criminal = <<>>
    /\ df_eventos = <<>>
    /\ sel = SelNenhum
    /\ out = <<>>
    /\ serie = SerieVazia
    /\ horas = <<>>
    /\ col_bairro = <<>>
    /\ col_regiao = <<>>
    /\ zona_i = 0
    /\ SemViewers

\* What no step of startup touches
ForaDaCarga ==
    <<serie, horas, col_bairro, col_regiao, zona_i, sel, out, varsViewers, arquivos>>

\* Lines 35-48: read_excel in a try whose handlers print and re-raise, then
\* the normalisation of the column names
LerCriminal ==
    /\ pc = "inicio"
    /\ IF arquivos.criminal.estado = "ok"
       THEN /\ df_criminal' =
                   [colunas |-> {NormalizarColuna(c) : c \in arquivos.criminal.colunas},
                    linhas |-> arquivos.criminal.linhas]
            /\ pc' = "colunas_normalizadas"
       ELSE /\ pc' = "abortado"
            /\ UNCHANGED df_criminal
    /\ UNCHANGED <<COLUNA_DATA_CRIM, opcoes, df_eventos, ForaDaCarga>>

\* The name lines 53-58 leave in COLUNA_DATA_CRIM
EscolherColunaData_SempreBO(colunas) == DATA_OCORRENCIA_BO
EscolherColunaData(colunas) ==
    IF DATA_OCORRENCIA_BO \notin colunas THEN DATAOCORRENCIA ELSE DATA_OCORRENCIA_BO

\* Lines 53-60: the date column is chosen, or ValueError is raised
LocalizarColunaData ==
    /\ pc = "colunas_normalizadas"
    /\ COLUNA_DATA_CRIM' = EscolherColunaData(df_criminal.colunas)
    /\ pc' = IF COLUNA_DATA_CRIM' \notin df_criminal.colunas
             THEN "abortado" ELSE "coluna_data"
    /\ UNCHANGED <<df_criminal, opcoes, df_eventos, ForaDaCarga>>

\* Lines 62-66: rows whose date does not parse are dropped; month and the
\* constant city are attached
PrepararCriminal ==
    /\ pc = "coluna_data"
    /\ LET validas == SelectSeq(df_criminal.linhas,
                                LAMBDA r : to_datetime(r.data) # NA)
       IN df_criminal' =
              [df_criminal EXCEPT
                  !.linhas = [i \in 1..Len(validas) |->
                                 [mes |-> to_datetime(validas[i].data)[1].mes,
                                  cidade |-> Some(SAO_PAULO),
                                  bairro |-> validas[i].bairro]]]
    /\ pc' = "criminal_pronto"
    /\ UNCHANGED <<COLUNA_DATA_CRIM, opcoes, df_eventos, ForaDaCarga>>

\* One row of the merged table: the event's fields and its venue's, the
\* venue's being absent when no venue matched
Juntar(e, i, id_local, latitude, longitude) ==
    [id_evento |-> i, local_id |-> e.local_id, id_local |-> id_local,
     evento_nome |-> e.evento_nome, bairro |-> e.bairro, cidade |-> e.cidade,
     data_evento |-> e.data_evento, latitude |-> latitude, longitude |-> longitude]

\* The rows a left join gives for the i-th event: one per venue whose id
\* equals its local_id, in the venues' order, or one without venue
LinhasDoEvento(e, i, locais) ==
    LET casam == SelectSeq(locais, LAMBDA l : l.id = e.local_id)
    IN IF casam = <<>>
       THEN <<Juntar(e, i, NA, NAstr, NAstr)>>
       ELSE [k \in 1..Len(casam) |->
                Juntar(e, i, Some(casam[k].id), casam[k].latitude,
                       casam[k].longitude)]

\* Lines 220-226: pd.merge(df_eventos, df_locais, how="left",
\* left_on="local_id", right_on="id")
RECURSIVE merge(_, _, _)
merge(eventos, locais, i) ==
    IF i > Len(eventos) THEN <<>>
    ELSE LinhasDoEvento(eventos[i], i, locais) \o merge(eventos, locais, i + 1)

\* Lines 209-231: both files are opened and parsed in one try that handles
\* only FileNotFoundError (SystemExit); any other error is raised out of the
\* script.  Then the tables are built and joined.
LerEventos ==
    /\ pc = "criminal_pronto"
    /\ IF arquivos.eventos.estado = "ok" /\ arquivos.locais.estado = "ok"
       THEN /\ df_eventos' = merge(arquivos.eventos.registros,
                                   arquivos.locais.registros, 1)
            /\ pc' = "eventos_juntados"
       ELSE /\ pc' = "abortado"
            /\ UNCHANGED df_eventos
    /\ UNCHANGED <<COLUNA_DATA_CRIM, opcoes, df_criminal, ForaDaCarga>>

\* Lines 234-241: coordinates to numbers, rows without either dropped; the
\* timestamp parsed, rows without it dropped; month and hour derived
LimparEventos ==
    /\ pc = "eventos_juntados"
    /\ LET num == [i \in 1..Len(df_eventos) |->
                      [df_eventos[i] EXCEPT
                          !.latitude = to_numeric_coord(@),
                          !.longitude = to_numeric_coord(@)]]
           com == SelectSeq(num, LAMBDA r : r.latitude # NA /\ r.longitude # NA)
           dat == SelectSeq(com, LAMBDA r : to_datetime(r.data_evento) # NA)
       IN df_eventos' =
              [i \in 1..Len(dat) |->
                  [id_evento |-> dat[i].id_evento, local_id |-> dat[i].local_id,
                   id_local |-> dat[i].id_local,
                   evento_nome |-> dat[i].evento_nome, bairro |-> dat[i].bairro,
                   cidade |-> dat[i].cidade,
                   latitude |-> dat[i].latitude, longitude |-> dat[i].longitude,
                   mes |-> to_datetime(dat[i].data_evento)[1].mes,
                   hora |-> to_datetime(dat[i].data_evento)[1].hora]]
    /\ pc' = "eventos_limpos"
    /\ UNCHANGED <<COLUNA_DATA_CRIM, opcoes, df_criminal, ForaDaCarga>>

\* Line 245: .replace({'': pd.NA})
SubstituirVazio_Nada(v) == v
SubstituirVazio(v) == IF v = Some(<<>>) THEN NA ELSE v

\* Lines 244-245 on one value: .astype('string').str.strip().str.title(),
\* then the empty text becomes missing
NormalizarTexto(v) ==
    IF v = NA THEN NA ELSE SubstituirVazio(Some(str_title(str_strip(v[1]))))

\* Lines 242-245: the loop over 'bairro', 'cidade' and 'evento_nome'
NormalizarTextos ==
    /\ pc = "eventos_limpos"
    /\ df_eventos' =
           [i \in 1..Len(df_eventos) |->
               [df_eventos[i] EXCEPT
                   !.bairro = NormalizarTexto(@),
                   !.cidade = NormalizarTexto(@),
                   !.evento_nome = NormalizarTexto(@)]]
    /\ pc' = "textos_normalizados"
    /\ UNCHANGED <<COLUNA_DATA_CRIM, opcoes, df_criminal, ForaDaCarga>>

\* df[col].dropna().unique() as a set
Presentes(df, col) == {df[i][col][1] : i \in {j \in 1..Len(df) : df[j][col] # NA}}

\* Line 262
bairros_unicos(crim, ev) ==
    sorted(Presentes(crim, "bairro") \cup Presentes(ev, "bairro"))

\* Line 267
cidades_unicas(crim, ev) ==
    sorted(Presentes(crim, "cidade") \cup Presentes(ev, "cidade"))

\* Line 268
eventos_unicos(ev) == sorted(Presentes(ev, "evento_nome"))

\* Line 271: the names of the months of df_criminal['mes'], in month order
meses_unicos(crim, ev) ==
    LET ms == sorted_num({crim[i].mes : i \in 1..Len(crim)})
    IN [k \in 1..Len(ms) |-> nomes_meses[ms[k]]]

\* Line 272: meses_mapping, month name to month number
meses_mapping(nome) == CHOOSE m \in 1..Len(nomes_meses) : nomes_meses[m] = nome

\* Lines 262-272 and the dropdowns of lines 310-363: the option lists; the
\* month dropdown offers the number of each listed month name (line 330).
\* The server then serves.
ConstruirOpcoes ==
    /\ pc = "textos_normalizados"
    /\ LET meses == meses_unicos(df_criminal.linhas, df_eventos)
       IN opcoes' =
              [bairros_unicos |-> bairros_unicos(df_criminal.linhas, df_eventos),
               cidades_unicas |-> cidades_unicas(df_criminal.linhas, df_eventos),
               eventos_unicos |-> eventos_unicos(df_eventos),
               meses_unicos |-> meses,
               filtro_mes |-> [k \in 1..Len(meses) |-> meses_mapping(meses[k])]]
    /\ pc' = "servindo"
    /\ UNCHANGED <<COLUNA_DATA_CRIM, df_criminal, df_eventos, ForaDaCarga>>

NextCarga ==
    \/ LerCriminal
    \/ LocalizarColunaData
    \/ PrepararCriminal
    \/ LerEventos
    \/ LimparEventos
    \/ NormalizarTextos
    \/ ConstruirOpcoes

SpecCarga == InitCarga /\ [][NextCarga]_vars

----------------------------------------------------------------------------
(* Properties of startup *)

ArquivosLegiveis ==
    /\ arquivos.criminal.estado = "ok"
    /\ arquivos.eventos.estado = "ok"
    /\ arquivos.locais.estado = "ok"

\* The occurrence sheet has a header that reads as nome once lowered and
\* underscored
CabecalhoPresente(nome) ==
    \E c \in arquivos.criminal.colunas : NormalizarColuna(c) = nome

TemColunaData ==
    CabecalhoPresente(DATA_OCORRENCIA_BO) \/ CabecalhoPresente(DATAOCORRENCIA)

\* C13: the script reaches the serving state only with the three files read
\* and a date column found; it ends either serving or aborted, and an aborted
\* script takes no further step; the date column in use is
\* 'data_ocorrencia_bo' when the sheet has it and 'dataocorrencia' otherwise.
C13_CargaFalhaRapido ==
    /\ pc = "servindo" => ArquivosLegiveis /\ TemColunaData
    /\ ~ENABLED NextCarga => pc \in {"servindo", "abortado"}
    /\ pc = "abortado" => ~ENABLED NextCarga
    /\ pc = "abortado" => opcoes = <<>>
    /\ COLUNA_DATA_CRIM # <<>> =>
           COLUNA_DATA_CRIM = IF CabecalhoPresente(DATA_OCORRENCIA_BO)
                              THEN DATA_OCORRENCIA_BO ELSE DATAOCORRENCIA

\* Witness of C13: the sheet has only the header 'DataOcorrencia', the
\* fallback column is in use, and the script has aborted on the unreadable
\* venues file.
C13_Witness ==
    /\ pc = "abortado"
    /\ arquivos.criminal.estado = "ok"
    /\ arquivos.eventos.estado = "ok"
    /\ arquivos.locais.estado = "ilegivel"
    /\ ~CabecalhoPresente(DATA_OCORRENCIA_BO)
    /\ COLUNA_DATA_CRIM = DATAOCORRENCIA

\* The text has no character other than blanks (the empty text included)
SoEspacos(t) == \A i \in 1..Len(t) : t[i] = " "

\* The neighbourhood field of the source record a row of df_eventos came from
BairroDeOrigem(linha) == arquivos.eventos.registros[linha.id_evento].bairro

EventosNormalizados == pc \in {"textos_normalizados", "servindo"}

\* C14: a row of the normalized event table whose source neighbourhood is
\* empty or blank holds a missing neighbourhood; the option list
\* bairros_unicos has no empty entry, and each of its entries is the
\* neighbourhood of an occurrence row or of an event row whose source
\* neighbourhood is not blank.
C14_BairroVazioAusente ==
    /\ EventosNormalizados =>
           \A i \in 1..Len(df_eventos) :
               (/\ BairroDeOrigem(df_eventos[i]) # NA
                /\ SoEspacos(BairroDeOrigem(df_eventos[i])[1]))
                   => df_eventos[i].bairro = NA
    /\ pc = "servindo" =>
           \A k \in 1..Len(opcoes.bairros_unicos) :
               /\ opcoes.bairros_unicos[k] # <<>>
               /\ \/ \E i \in 1..Len(df_criminal.linhas) :
                         df_criminal.linhas[i].bairro = Some(opcoes.bairros_unicos[k])
                  \/ \E i \in 1..Len(df_eventos) :
                         /\ df_eventos[i].bairro = Some(opcoes.bairros_unicos[k])
                         /\ BairroDeOrigem(df_eventos[i]) # NA
                         /\ ~SoEspacos(BairroDeOrigem(df_eventos[i])[1])

\* Witness of C14: the server serves a table with an event whose source
\* neighbourhood is the empty text, stored as missing, and an event whose
\* neighbourhood ' vila SONIA' is offered as 'Vila Sonia'.
C14_Witness ==
    /\ pc = "servindo"
    /\ \E i \in 1..Len(df_eventos) :
           BairroDeOrigem(df_eventos[i]) = Some(<<>>) /\ df_eventos[i].bairro = NA
    /\ \E k \in 1..Len(opcoes.bairros_unicos) :
           opcoes.bairros_unicos[k] = <<"V", "i", "l", "a", " ", "S", "o", "n", "i", "a">>

\* The distinct present values of a column of a table
ValoresDe(df, col) == {df[i][col] : i \in 1..Len(df)} \ {NA}

ElementosDe(seq) == {seq[k] : k \in 1..Len(seq)}

\* C16 as stated: the neighbourhood, city and month option lists are the
\* unions of the distinct values of the two normalized tables, so a month in
\* which an event falls is offered.
C16_OpcoesUniao ==
    pc = "servindo" =>
        /\ {Some(b) : b \in ElementosDe(opcoes.bairros_unicos)} =
               ValoresDe(df_criminal.linhas, "bairro") \cup ValoresDe(df_eventos, "bairro")
        /\ {Some(c) : c \in ElementosDe(opcoes.cidades_unicas)} =
               ValoresDe(df_criminal.linhas, "cidade") \cup ValoresDe(df_eventos, "cidade")
        /\ ElementosDe(opcoes.filtro_mes) =
               {df_criminal.linhas[i].mes : i \in 1..Len(df_criminal.linhas)}
                   \cup {df_eventos[i].mes : i \in 1..Len(df_eventos)}

\* C17 as stated: the normalized event table has no more rows than the
\* events file has records, each source event gives at most one row, and
\* each row's local_id is the id of exactly one venue.
C17_UmRegistroPorEvento ==
    EventosNormalizados =>
        /\ Len(df_eventos) <= Len(arquivos.eventos.registros)
        /\ \A e \in 1..Len(arquivos.eventos.registros) :
               Cardinality({i \in 1..Len(df_eventos) : df_eventos[i].id_evento = e}) <= 1
        /\ \A i \in 1..Len(df_eventos) :
               Cardinality({k \in 1..Len(arquivos.locais.registros) :
                   arquivos.locais.registros[k].id = df_eventos[i].local_id}) = 1

----------------------------------------------------------------------------
(* Further properties of the region loop and of the callback *)

\* The order in which the source lists the zones
OrdemZonas ==
    <<"Zona Norte", "Zona Sul", "Zona Leste", "Zona Oeste", "Centro",
      "Outras Localidades">>

\* The neighbourhood set the table holds under a zone name
ConjuntoDaZona(nome) ==
    LET k == CHOOSE j \in 1..Len(zonas_sao_paulo) : zonas_sao_paulo[j].nome = nome
    IN zonas_sao_paulo[k].bairros

\* The positions in OrdemZonas of the zones that list neighbourhood b
PosicoesDe(b) == {k \in 1..Len(OrdemZonas) : b \in ConjuntoDaZona(OrdemZonas[k])}

\* C15: each iteration of the loop writes its zone over whatever an earlier
\* one assigned to the rows whose neighbourhood it lists, and when the loop
\* is done a neighbourhood listed in more than one set holds the zone that
\* comes last in the order Zona Norte, Zona Sul, Zona Leste, Zona Oeste,
\* Centro, Outras Localidades.
C15_UltimaZonaSobrescreve ==
    /\ [](RegiaoFeita =>
              \A i \in 1..Len(col_bairro) :
                  Cardinality(PosicoesDe(col_bairro[i])) > 1 =>
                      \E k \in PosicoesDe(col_bairro[i]) :
                          /\ \A j \in PosicoesDe(col_bairro[i]) : j <= k
                          /\ col_regiao[i] = OrdemZonas[k])
    /\ [][pc = "regiao_loop" =>
              \A i \in 1..Len(col_bairro) :
                  col_bairro[i] \in ConjuntoDaZona(OrdemZonas[zona_i]) =>
                      col_regiao'[i] = OrdemZonas[zona_i]]_vars

\* Witness of C15: 'Morumbi', listed under Zona Sul and under Zona Oeste,
\* ends with Zona Oeste.
C15_Witness ==
    /\ RegiaoFeita
    /\ \E i \in 1..Len(col_bairro) :
           col_bairro[i] = "Morumbi" /\ col_regiao[i] = "Zona Oeste"

\* C18: a density map of occurrences has zoom 12 when a neighbourhood is
\* selected, else 10 when a region is selected, else 9; a density map of
\* events has the centre (-23.550520, -46.633308) and zoom 12 whatever is
\* selected.
C18_ParametrosDoMapa ==
    /\ out.fig_mapa_crim.tipo = "density_mapbox" =>
           out.fig_mapa_crim.zoom =
               Some(IF sel.bairro # NA THEN 12 ELSE IF sel.regiao # NA THEN 10 ELSE 9)
    /\ out.fig_mapa_eventos.tipo = "density_mapbox" =>
           /\ out.fig_mapa_eventos.center =
                  Some([lat |-> -23550520, lon |-> -46633308])
           /\ out.fig_mapa_eventos.zoom = Some(12)

\* Witness of C18: neighbourhood and region are both selected, both maps are
\* density maps and the occurrence map has zoom 12.
C18_Witness ==
    /\ sel.bairro # NA
    /\ sel.regiao # NA
    /\ out.fig_mapa_crim.tipo = "density_mapbox"
    /\ out.fig_mapa_crim.zoom = Some(12)
    /\ out.fig_mapa_eventos.tipo = "density_mapbox"

\* The number a card shows: its digits read as a decimal, the thousands
\* separators left out
NumeroDoCartao(txt) == ValorDecimal(SelectSeq(txt, LAMBDA c : c # "."))

RECURSIVE SomaDasBarras(_, _)
SomaDasBarras(hist, horas_) ==
    IF horas_ = {} THEN 0
    ELSE LET h == CHOOSE x \in horas_ : TRUE
         IN hist[h] + SomaDasBarras(hist, horas_ \ {h})

\* C19: the number on the total-occurrences card is the sum of the bars of
\* the occurrence histogram, and the number on the total-events card is the
\* sum of the bars of the event histogram.
C19_CartaoIgualSomaDasBarras ==
    /\ NumeroDoCartao(out.card_ocorrencias) =
           SomaDasBarras(out.fig_hora_crim, DOMAIN out.fig_hora_crim)
    /\ NumeroDoCartao(out.card_total_eventos) =
           SomaDasBarras(out.fig_hora_eventos, DOMAIN out.fig_hora_eventos)

\* Witness of C19: under a category filter an occurrence at 23h and one at
\* 00h remain; the card reads 1 and the last bar is 1.
C19_Witness ==
    /\ sel.natureza # NA
    /\ LinhasNaHora(out.df_criminal_filtrado, 23) = 1
    /\ LinhasNaHora(out.df_criminal_filtrado, 0) = 1
    /\ out.card_ocorrencias = <<"1">>
    /\ out.fig_hora_crim[23] = 1

====
